---------------------------- MODULE Spec2Model ----------------------------
(***************************************************************************)
(* Model of the picard bridge: the EventSim Panel Link                     *)
(* (src/src/panels/eventsim.rs), the Simulation Link (src/src/sim.rs) and  *)
(* the mpsc channels that join them.                                       *)
(*                                                                         *)
(* Each thread is a process with a program counter.  A Panel Link loop     *)
(* iteration is the three steps recv -> read -> keepalive; a Simulation    *)
(* Link loop iteration is the two steps recv -> dispatch.  The serial      *)
(* device, the simulation host and the clock are the environment: what     *)
(* they deliver is chosen with \E from small sets.                         *)
(***************************************************************************)
EXTENDS Integers, Sequences, FiniteSets, TLC

VARIABLES
    pc,                 \* panel -> position of its thread in EventSimPanel::run
    connected,          \* panel -> EventSimPanel.connected
    aircraft_sim_state, \* panel -> EventSimPanel.aircraft_sim_state (<<>> = None, <<s>> = Some(s))
    et,                 \* panel -> the local `et` Instant of run (ms)
    sim_rx,             \* panel -> contents of the panel's state channel
    wire,               \* panel -> every line written to the serial device, in order
    result,             \* panel -> how run ended ("running" while it has not)
    lines_read,         \* panel -> number of lines the device has delivered
    last_line,          \* panel -> outcome of the latest line_reader.next()
    last_write,         \* panel -> clock value at the latest successful writeln
    dequeued,           \* panel -> every state its try_recv returned, in order
    buf,                \* panel -> the `buf` read_until filled (airspeed panel)
    timer_log,          \* history: panel -> the clock at reader setup, then at each PING written
    now,                \* the monotonic clock (ms)
    sim_pc,             \* position of the thread running SimCommunicator::run
    sim_connected,      \* SimCommunicator.connected
    sim_txs,            \* SimCommunicator.sim_txs: the fan-out list (panel ids)
    hw_rx,              \* contents of the command channel
    transmitted,        \* every client.transmit_event call that succeeded, in order
    conn,               \* number of SimConnect::new attempts so far
    regs,               \* registration calls that succeeded on the current client
    notifs,             \* number of notifications the host has delivered
    sim_ret,            \* what the latest run_event_loop returned
    sim_event,          \* the latest outcome of get_next_dispatch
    sim_sleep,          \* duration of the latest thread::sleep of the sim thread (ms)
    objects,            \* history: the state of every ObjectData notification decoded, in order
    pushed              \* history: every command sent into the command channel, in order,
                        \* with the sender and whether the sim link was connected then

panel_vars == <<pc, connected, aircraft_sim_state, et, sim_rx, wire, result,
                lines_read, last_line, last_write, dequeued, buf, timer_log>>
sim_vars == <<sim_pc, sim_connected, sim_txs, hw_rx, transmitted, conn, regs,
              notifs, sim_ret, sim_event, sim_sleep, objects, pushed>>
vars == <<panel_vars, sim_vars, now>>

----------------------------------------------------------------------------
(* Bounds of the model *)

\* lines the serial devices deliver in a run
MaxLines == 2
\* notifications the simulation host delivers in a run
MaxNotifs == 2
\* SimConnect::new attempts in a run
MaxConns == 2
\* the clock stops advancing here
MaxNow == 750

\* the clock stops here where two keepalive intervals have to pass
MaxPingNow == 1500

\* the panels that can exist
Panels == {1, 2}
\* clock increments
TickSteps == {250}

----------------------------------------------------------------------------
(* Program constants *)

\* eventsim.rs:106  Duration::from_millis(500)
PING_INTERVAL_MS == 500
\* sim.rs:170  Duration::from_secs(5)
BACKOFF_MS == 5000
\* sim.rs:229  Duration::from_millis(10)
FRAME_SLEEP_MS == 10

----------------------------------------------------------------------------
(* sim.rs: data types *)

\* sim.rs:53-58
LandingGearStatus == {"Unknown", "Up", "Down"}

\* a classification that rounds to the nearer end position
GearFromRounded(value) ==
    IF value < 50 THEN "Up" ELSE "Down"

\* sim.rs:60-70  impl From<f64> for LandingGearStatus.  Positions are held in
\* hundredths ("percent over 100"): 0 is 0.0 and 100 is 1.0.
GearFrom(value) ==
    IF value = 0 THEN "Up"
    ELSE IF value = 100 THEN "Down"
    ELSE "Unknown"

\* sim.rs:72-80  LandingGearStatus::as_int
as_int(status) ==
    CASE status = "Up" -> 0
      [] status = "Down" -> 1
      [] status = "Unknown" -> 2

\* sim.rs:41-51  impl From<AircraftSimData> for AircraftSimState
StateFrom(value) ==
    [parking_brake_indicator |-> value.parking_brake_indicator,
     gear_center_state |-> GearFrom(value.gear_center_position),
     gear_left_state |-> GearFrom(value.gear_left_position),
     gear_right_state |-> GearFrom(value.gear_right_position),
     airspeed |-> value.airspeed]

\* sim.rs:14-30  AircraftSimData
MkData(c, l, r, a, b) ==
    [gear_center_position |-> c, gear_left_position |-> l,
     gear_right_position |-> r, airspeed |-> a, parking_brake_indicator |-> b]

\* telemetry samples the host delivers
HostData == {MkData(0, 0, 0, 0, TRUE), MkData(100, 50, 100, 120, FALSE)}

\* sim.rs:84-99  enum SimClientEvent, in declaration order
SimClientEvents ==
    <<"LandingLightsOn", "LandingLightsOff", "TaxiLightsOn", "TaxiLightsOff",
      "StrobeLightsOn", "StrobeLightsOff", "NavLightsOn", "NavLightsOff",
      "FlapsUp", "FlapsDown", "ParkingBrakeOn", "ParkingBrakeOff",
      "LandingGearUp", "LandingGearDown">>

SimClientEventSet == {SimClientEvents[i] : i \in DOMAIN SimClientEvents}

\* sim.rs:101-103  event_id: the discriminant of a #[repr(u32)] enum
event_id(e) == (CHOOSE i \in DOMAIN SimClientEvents : SimClientEvents[i] = e) - 1

\* sim.rs:105-123  event_name, without the terminating NUL
event_name(e) ==
    CASE e = "LandingLightsOn" -> "LANDING_LIGHTS_ON"
      [] e = "LandingLightsOff" -> "LANDING_LIGHTS_OFF"
      [] e = "TaxiLightsOn" -> "TAXI_LIGHTS_ON"
      [] e = "TaxiLightsOff" -> "TAXI_LIGHTS_OFF"
      [] e = "StrobeLightsOn" -> "STROBES_ON"
      [] e = "StrobeLightsOff" -> "STROBES_OFF"
      [] e = "NavLightsOn" -> "NAV_LIGHTS_ON"
      [] e = "NavLightsOff" -> "NAV_LIGHTS_OFF"
      [] e = "FlapsUp" -> "FLAPS_DECR"
      [] e = "FlapsDown" -> "FLAPS_INCR"
      [] e = "ParkingBrakeOn" -> "PARKING_BRAKE_SET"
      [] e = "ParkingBrakeOff" -> "PARKING_BRAKE_SET"
      [] e = "LandingGearUp" -> "GEAR_UP"
      [] e = "LandingGearDown" -> "GEAR_DOWN"

\* a payload that is 1 for both parking brake commands
dataFlag(e) ==
    CASE e \in {"ParkingBrakeOn", "ParkingBrakeOff"} -> 1
      [] OTHER -> 0

\* sim.rs:125-131  data
data(e) ==
    CASE e = "ParkingBrakeOn" -> 1
      [] e = "ParkingBrakeOff" -> 0
      [] OTHER -> 0

\* sim.rs:189-204  one register_object and one mapping per event
RegCalls == 1 + Len(SimClientEvents)

----------------------------------------------------------------------------
(* eventsim.rs: pure parts *)

\* bool as i32
BoolInt(b) == IF b THEN 1 ELSE 0

\* digits written by "{}" for the values the lines carry
Digit(n) == CASE n = 0 -> "0" [] n = 1 -> "1" [] n = 2 -> "2"

\* a send_state that writes the left gear line before the front gear line
send_stateSwapped(state) ==
    <<"PARKING_BRAKE:" \o Digit(BoolInt(state.parking_brake_indicator)),
      "LEFT_GEAR_LED:" \o Digit(as_int(state.gear_left_state)),
      "FRONT_GEAR_LED:" \o Digit(as_int(state.gear_center_state)),
      "RIGHT_GEAR_LED:" \o Digit(as_int(state.gear_right_state))>>

\* eventsim.rs:155-164  send_state: the lines it writes, in order
send_state(state) ==
    <<"PARKING_BRAKE:" \o Digit(BoolInt(state.parking_brake_indicator)),
      "FRONT_GEAR_LED:" \o Digit(as_int(state.gear_center_state)),
      "LEFT_GEAR_LED:" \o Digit(as_int(state.gear_left_state)),
      "RIGHT_GEAR_LED:" \o Digit(as_int(state.gear_right_state))>>

\* a change detection that reports every state as changed
StateChangedAlways(old, state) == TRUE

\* eventsim.rs:62-66  .as_ref().map(|old_state| old_state != &state).unwrap_or(true)
StateChanged(old, state) ==
    IF old = <<>> THEN TRUE ELSE old[1] # state

\* a decoder that reads the parking brake tokens the other way round
DecodeCommandSwapped(cmd) ==
    CASE cmd = "PARKING_BRAKE:0" -> <<"ParkingBrakeOn">>
      [] cmd = "PARKING_BRAKE:1" -> <<"ParkingBrakeOff">>
      [] OTHER -> <<>>

\* eventsim.rs:132-148  the match of handle_serial_command:
\* <<event>> for a recognised token, <<>> for `_ => return`
DecodeCommand(cmd) ==
    CASE cmd = "MISC1:0" -> <<"TaxiLightsOff">>
      [] cmd = "MISC1:1" -> <<"TaxiLightsOn">>
      [] cmd = "MISC2:0" -> <<"LandingLightsOff">>
      [] cmd = "MISC2:1" -> <<"LandingLightsOn">>
      [] cmd = "MISC3:0" -> <<"NavLightsOff">>
      [] cmd = "MISC3:1" -> <<"NavLightsOn">>
      [] cmd = "MISC4:0" -> <<"StrobeLightsOff">>
      [] cmd = "MISC4:1" -> <<"StrobeLightsOn">>
      [] cmd = "FLAPS_UP" -> <<"FlapsUp">>
      [] cmd = "FLAPS_DN" -> <<"FlapsDown">>
      [] cmd = "PARKING_BRAKE:0" -> <<"ParkingBrakeOff">>
      [] cmd = "PARKING_BRAKE:1" -> <<"ParkingBrakeOn">>
      [] cmd = "LANDING_GEAR:0" -> <<"LandingGearUp">>
      [] cmd = "LANDING_GEAR:1" -> <<"LandingGearDown">>
      [] OTHER -> <<>>

\* a keepalive test that fires at the interval instead of after it
KeepaliveDueAt(t, e) == t >= e + PING_INTERVAL_MS

\* eventsim.rs:106  now > et + Duration::from_millis(500)
KeepaliveDue(t, e) == t > e + PING_INTERVAL_MS

\* the 14 command tokens of handle_serial_command
CommandTokens ==
    {"MISC1:0", "MISC1:1", "MISC2:0", "MISC2:1", "MISC3:0", "MISC3:1",
     "MISC4:0", "MISC4:1", "FLAPS_UP", "FLAPS_DN", "PARKING_BRAKE:0",
     "PARKING_BRAKE:1", "LANDING_GEAR:0", "LANDING_GEAR:1"}

\* the tokens matched by run itself (eventsim.rs:84-94)
ControlTokens == {"SYN|ACK", "RST", "PING", "PONG"}

\* lines a device may deliver: every token of the protocol and two that are not
AllLines == ControlTokens \cup CommandTokens \cup {"garbage", "MISC1:2"}

\* a small alphabet: the control tokens, a command and an unknown token
CoreLines == ControlTokens \cup {"MISC1:1", "garbage"}


----------------------------------------------------------------------------
(* Channels (std::sync::mpsc) *)

\* a panel thread that has not ended still owns its Receiver and its Sender
PanelAlive(p) == pc[p] \notin {"absent", "done"}

\* the sim thread has ended: hw_rx and every Sender of sim_txs are dropped
SimGone == sim_pc \in {"exited", "panicked"}

\* some Sender of the command channel still exists: the thread of an
\* EventSim panel has not ended (an airspeed panel holds no command sender)
HwSendersAlive ==
    \E p \in Panels : pc[p] \in {"new", "reset", "recv", "read", "keepalive"}

\* f with f[p] replaced by v
Set(f, p, v) == [f EXCEPT ![p] = v]

----------------------------------------------------------------------------
(* EventSimPanel::run *)

\* eventsim.rs:32-46  open the port and reset the device; run then waits
\* 2000 ms for the device (pc "reset") while the other threads go on
PanelOpen(p) ==
    /\ pc[p] = "new"
    /\ \E outcome \in {"ok", "SerialOpen", "Serial"} :
         IF outcome = "ok"
         THEN /\ pc' = Set(pc, p, "reset")
              /\ result' = result
         ELSE /\ pc' = Set(pc, p, "done")
              /\ result' = Set(result, p, outcome)
    /\ UNCHANGED <<connected, aircraft_sim_state, sim_rx, lines_read, last_line,
                   dequeued, wire, last_write, et, timer_log>>
    /\ UNCHANGED <<buf, sim_vars, now>>

\* eventsim.rs:48-53  after the wait: clone the port for the reader, take
\* `et`, write SYN
PanelSyn(p) ==
    /\ pc[p] = "reset"
    /\ \E outcome \in {"ok", "Serial", "Io"} :
         IF outcome = "ok"
         THEN /\ wire' = Set(wire, p, <<"SYN">>)
              /\ last_write' = Set(last_write, p, now)
              /\ et' = Set(et, p, now)
              /\ timer_log' = Set(timer_log, p, <<now>>)
              /\ pc' = Set(pc, p, "recv")
              /\ result' = result
         ELSE /\ pc' = Set(pc, p, "done")
              /\ result' = Set(result, p, outcome)
              /\ UNCHANGED <<wire, last_write, et, timer_log>>
    /\ UNCHANGED <<connected, aircraft_sim_state, sim_rx, lines_read, last_line,
                   dequeued>>
    /\ UNCHANGED <<buf, sim_vars, now>>

\* eventsim.rs:58  try_recv returns at once, whatever the channel holds
RecvReturns(p) == TRUE

\* a state push that does not wait for the handshake
StateGateOpen(p) == TRUE

\* eventsim.rs:57  `if self.connected`: the state channel is read only then
StateGate(p) == connected[p]

\* eventsim.rs:57-78  the outbound state push of one loop iteration.
\* k is the number of writeln calls of send_state that succeed.
PanelRecv(p) ==
    /\ pc[p] = "recv"
    /\ StateGate(p) => RecvReturns(p)
    /\ IF StateGate(p) /\ sim_rx[p] # <<>>
       THEN LET state == Head(sim_rx[p])
                lines == IF StateChanged(aircraft_sim_state[p], state)
                         THEN send_state(state) ELSE <<>>
            IN  \E k \in 0..Len(lines) :
                  /\ sim_rx' = Set(sim_rx, p, Tail(sim_rx[p]))
                  /\ dequeued' = Set(dequeued, p, Append(dequeued[p], state))
                  /\ wire' = Set(wire, p, wire[p] \o SubSeq(lines, 1, k))
                  /\ last_write' = IF k > 0 THEN Set(last_write, p, now) ELSE last_write
                  /\ IF k = Len(lines)
                     THEN /\ aircraft_sim_state' = Set(aircraft_sim_state, p, <<state>>)
                          /\ pc' = Set(pc, p, "read")
                          /\ result' = result
                     ELSE /\ aircraft_sim_state' = aircraft_sim_state
                          /\ pc' = Set(pc, p, "done")
                          /\ result' = Set(result, p, "Io")
       ELSE IF StateGate(p) /\ SimGone
       THEN /\ pc' = Set(pc, p, "done")
            /\ result' = Set(result, p, "panic: unreachable")
            /\ UNCHANGED <<sim_rx, wire, last_write, aircraft_sim_state, dequeued>>
       ELSE /\ pc' = Set(pc, p, "read")
            /\ UNCHANGED <<sim_rx, wire, last_write, aircraft_sim_state, result,
                           dequeued>>
    /\ UNCHANGED <<connected, et, lines_read, last_line>>
    /\ UNCHANGED <<buf, timer_log, sim_vars, now>>

\* a writeln whose failure is dropped: run goes on without the line
WriteLineIgnoresFailure(p, line, next) ==
    \E ok \in BOOLEAN :
      /\ wire' = Set(wire, p, IF ok THEN Append(wire[p], line) ELSE wire[p])
      /\ last_write' = IF ok THEN Set(last_write, p, now) ELSE last_write
      /\ pc' = Set(pc, p, next)
      /\ result' = result

\* one writeln of run: the line reaches the wire and run goes on to `next`,
\* or the write fails and run returns Io
WriteLine(p, line, next) ==
    \E ok \in BOOLEAN :
      IF ok
      THEN /\ wire' = Set(wire, p, Append(wire[p], line))
           /\ last_write' = Set(last_write, p, now)
           /\ pc' = Set(pc, p, next)
           /\ result' = result
      ELSE /\ pc' = Set(pc, p, "done")
           /\ result' = Set(result, p, "Io")
           /\ UNCHANGED <<wire, last_write>>

\* a handle_serial_command whose command overtakes the commands that wait
handle_serial_commandFront(p, cmd) ==
    LET event == DecodeCommand(cmd)
    IN  IF event = <<>>
        THEN /\ pc' = Set(pc, p, "keepalive")
             /\ UNCHANGED <<hw_rx, pushed, result>>
        ELSE /\ hw_rx' = <<[event |-> event[1], from |-> p]>> \o hw_rx
             /\ pushed' = Append(pushed, [event |-> event[1], from |-> p,
                                          up |-> sim_connected])
             /\ pc' = Set(pc, p, "keepalive")
             /\ result' = result

\* eventsim.rs:130-152  handle_serial_command
handle_serial_command(p, cmd) ==
    LET event == DecodeCommand(cmd)
    IN  IF event = <<>>
        THEN /\ pc' = Set(pc, p, "keepalive")
             /\ UNCHANGED <<hw_rx, pushed, result>>
        ELSE IF SimGone
        THEN /\ pc' = Set(pc, p, "done")
             /\ result' = Set(result, p, "panic: SimConnect thread offline")
             /\ UNCHANGED <<hw_rx, pushed>>
        ELSE /\ hw_rx' = Append(hw_rx, [event |-> event[1], from |-> p])
             /\ pushed' = Append(pushed, [event |-> event[1], from |-> p,
                                          up |-> sim_connected])
             /\ pc' = Set(pc, p, "keepalive")
             /\ result' = result

\* lines delivered so far by all devices
LinesTotal == LET Sum[S \in SUBSET Panels] ==
                    IF S = {} THEN 0
                    ELSE LET q == CHOOSE x \in S : TRUE
                         IN  lines_read[q] + Sum[S \ {q}]
              IN  Sum[Panels]

\* a match that takes any line beginning the exchange for the acknowledgment
ClassifyAnyAck(msg) ==
    CASE msg \in {"SYN|ACK", "garbage"} -> "synack"
      [] msg = "RST" -> "rst"
      [] msg = "PING" -> "ping"
      [] msg = "PONG" -> "pong"
      [] OTHER -> "cmd"

\* a match without the RST arm: RST falls through to handle_serial_command
ClassifyNoRst(msg) ==
    CASE msg = "SYN|ACK" -> "synack"
      [] msg = "PING" -> "ping"
      [] msg = "PONG" -> "pong"
      [] OTHER -> "cmd"

\* a match that answers the reply and ignores the probe
ClassifyPingPong(msg) ==
    CASE msg = "SYN|ACK" -> "synack"
      [] msg = "RST" -> "rst"
      [] msg = "PING" -> "pong"
      [] msg = "PONG" -> "ping"
      [] OTHER -> "cmd"

\* a match that answers SYN|ACK during the handshake only: once a link is
\* Connected the line is ignored
ClassifySynAckOnce(msg) ==
    CASE msg = "SYN|ACK" /\ (\A p \in Panels : ~connected[p]) -> "synack"
      [] msg = "SYN|ACK" /\ (\E p \in Panels : connected[p]) -> "pong"
      [] msg = "RST" -> "rst"
      [] msg = "PING" -> "ping"
      [] msg = "PONG" -> "pong"
      [] OTHER -> "cmd"

\* eventsim.rs:83-95  the arm of `match msg.as_str()` a line takes
Classify(msg) ==
    CASE msg = "SYN|ACK" -> "synack"
      [] msg = "RST" -> "rst"
      [] msg = "PING" -> "ping"
      [] msg = "PONG" -> "pong"
      [] OTHER -> "cmd"

\* eventsim.rs:80-102  the serial read of one loop iteration.
\* "<idle>" is next() = None or Err(TimedOut), "<ioerr>" any other Err.
PanelRead(p, Lines) ==
    /\ pc[p] = "read"
    /\ \E msg \in {"<idle>", "<ioerr>"} \cup
                  (IF LinesTotal < MaxLines THEN Lines ELSE {}) :
         /\ last_line' = Set(last_line, p, msg)
         /\ lines_read' = IF msg \in Lines
                          THEN Set(lines_read, p, lines_read[p] + 1) ELSE lines_read
         /\ CASE msg = "<idle>" ->
                   /\ pc' = Set(pc, p, "keepalive")
                   /\ UNCHANGED <<wire, last_write, result, connected, hw_rx, pushed>>
              [] msg = "<ioerr>" ->
                   /\ pc' = Set(pc, p, "done")
                   /\ result' = Set(result, p, "Io")
                   /\ UNCHANGED <<wire, last_write, connected, hw_rx, pushed>>
              [] msg \in Lines /\ Classify(msg) = "synack" ->
                   /\ WriteLine(p, "ACK", "keepalive")
                   /\ connected' = Set(connected, p, pc'[p] # "done" \/ connected[p])
                   /\ UNCHANGED <<hw_rx, pushed>>
              [] msg \in Lines /\ Classify(msg) = "rst" ->
                   /\ pc' = Set(pc, p, "done")
                   /\ result' = Set(result, p, "Disconnect")
                   /\ UNCHANGED <<wire, last_write, connected, hw_rx, pushed>>
              [] msg \in Lines /\ Classify(msg) = "ping" ->
                   /\ WriteLine(p, "PONG", "keepalive")
                   /\ UNCHANGED <<connected, hw_rx, pushed>>
              [] msg \in Lines /\ Classify(msg) = "pong" ->
                   /\ pc' = Set(pc, p, "keepalive")
                   /\ UNCHANGED <<wire, last_write, result, connected, hw_rx, pushed>>
              [] msg \in Lines /\ Classify(msg) = "cmd" ->
                   /\ handle_serial_command(p, msg)
                   /\ UNCHANGED <<wire, last_write, connected>>
    /\ UNCHANGED <<aircraft_sim_state, et, sim_rx, dequeued, buf, timer_log>>
    /\ UNCHANGED <<sim_pc, sim_connected, sim_txs, transmitted, conn, regs,
                   notifs, sim_ret, sim_event, sim_sleep, objects, now>>

\* a keepalive that writes PING without restarting the interval timer
PanelKeepaliveNoRestart(p) ==
    /\ pc[p] = "keepalive"
    /\ IF KeepaliveDue(now, et[p])
       THEN /\ WriteLine(p, "PING", "recv")
            /\ et' = et
            /\ timer_log' = IF pc'[p] = "done" THEN timer_log
                            ELSE Set(timer_log, p, Append(timer_log[p], now))
       ELSE /\ pc' = Set(pc, p, "recv")
            /\ UNCHANGED <<wire, last_write, result, et, timer_log>>
    /\ UNCHANGED <<connected, aircraft_sim_state, sim_rx, lines_read, last_line,
                   dequeued>>
    /\ UNCHANGED <<buf, sim_vars, now>>

\* eventsim.rs:104-109  the keepalive of one loop iteration
PanelKeepalive(p) ==
    /\ pc[p] = "keepalive"
    /\ IF KeepaliveDue(now, et[p])
       THEN /\ WriteLine(p, "PING", "recv")
            /\ et' = Set(et, p, IF pc'[p] = "done" THEN et[p] ELSE now)
            /\ timer_log' = IF pc'[p] = "done" THEN timer_log
                            ELSE Set(timer_log, p, Append(timer_log[p], now))
       ELSE /\ pc' = Set(pc, p, "recv")
            /\ UNCHANGED <<wire, last_write, result, et, timer_log>>
    /\ UNCHANGED <<connected, aircraft_sim_state, sim_rx, lines_read, last_line,
                   dequeued>>
    /\ UNCHANGED <<buf, sim_vars, now>>

\* the clock advances, up to limit
TickTo(limit) ==
    /\ \E d \in TickSteps :
         /\ now + d <= limit
         /\ now' = now + d
    /\ UNCHANGED <<panel_vars, sim_vars>>

\* the clock advances
Tick == TickTo(MaxNow)

----------------------------------------------------------------------------
(* AirspeedIndicatorPanel::run *)

\* the device signature, and the delimiter byte, as elements of a byte stream
AirspeedName == "Name<Airspeed-Indicator>"
Delim == ";"

\* what a device can have sent before the first read: its stream, as the
\* pieces the reads return, a delimiter being a piece of its own, ending
\* where the device stops sending
Streams ==
    {<<AirspeedName, Delim>>, <<AirspeedName, Delim, "x", Delim>>,
     <<"Name<Airspeed-", "Indicator>", Delim>>, <<"Name<">>,
     <<AirspeedName>>, <<"Name<EventSim>", Delim>>, <<"x", Delim, AirspeedName, Delim>>,
     <<Delim>>, <<>>}

\* the bytes of a sequence of pieces
RECURSIVE Bytes(_)
Bytes(pieces) == IF pieces = <<>> THEN "" ELSE Head(pieces) \o Bytes(Tail(pieces))

\* airspeedindicator.rs:42  read_until(b';', &mut buf): the bytes up to and
\* including the first delimiter, or all of them when there is none
read_until(stream) ==
    LET at == {i \in DOMAIN stream : stream[i] = Delim}
    IN  IF at = {} THEN stream
        ELSE SubSeq(stream, 1, CHOOSE i \in at : \A j \in at : i <= j)

\* a check that looks at the name and not at the delimiter
BannerOkName(b) == b # <<>> /\ b[1] = AirspeedName

\* airspeedindicator.rs:43  String::from_utf8_lossy(&buf) == "Name<Airspeed-Indicator>;"
\* for the pieces b that were read into buf
BannerOk(b) == Bytes(b) = "Name<Airspeed-Indicator>;"

\* "{}" of an i32
RECURSIVE Decimal(_)
Decimal(n) ==
    IF n < 0 THEN "-" \o Decimal(0 - n)
    ELSE IF n < 10
    THEN CASE n = 0 -> "0" [] n = 1 -> "1" [] n = 2 -> "2" [] n = 3 -> "3"
           [] n = 4 -> "4" [] n = 5 -> "5" [] n = 6 -> "6" [] n = 7 -> "7"
           [] n = 8 -> "8" [] n = 9 -> "9"
    ELSE Decimal(n \div 10) \o Decimal(n % 10)

\* airspeedindicator.rs:56-60  the line written for a state
AirspeedLine(state) ==
    "Type<I-A>::Target<Airspeed-Indicator>::Content<" \o Decimal(state.airspeed)
      \o ">::Origin<Interface>;"

\* airspeedindicator.rs:27-35  open the port and reset the device; run then
\* waits 2000 ms for the device (pc "areset") while the other threads go on
AirspeedOpen(p) ==
    /\ pc[p] = "anew"
    /\ \E outcome \in {"ok", "SerialOpen", "Serial"} :
         IF outcome = "ok"
         THEN /\ pc' = Set(pc, p, "areset")
              /\ result' = result
         ELSE /\ pc' = Set(pc, p, "done")
              /\ result' = Set(result, p, outcome)
    /\ UNCHANGED <<connected, aircraft_sim_state, et, sim_rx, wire, lines_read,
                   last_line, last_write, dequeued, buf, timer_log>>
    /\ UNCHANGED <<sim_vars, now>>

\* airspeedindicator.rs:38-39  after the wait: clone the port for the reader
AirspeedClone(p) ==
    /\ pc[p] = "areset"
    /\ \E outcome \in {"ok", "Serial"} :
         IF outcome = "ok"
         THEN /\ pc' = Set(pc, p, "banner")
              /\ result' = result
         ELSE /\ pc' = Set(pc, p, "done")
              /\ result' = Set(result, p, outcome)
    /\ UNCHANGED <<connected, aircraft_sim_state, et, sim_rx, wire, lines_read,
                   last_line, last_write, dequeued, buf, timer_log>>
    /\ UNCHANGED <<sim_vars, now>>

\* the pieces of stream before its first delimiter
Undelimited(stream) ==
    LET got == read_until(stream)
    IN  IF got # <<>> /\ got[Len(got)] = Delim THEN SubSeq(got, 1, Len(got) - 1) ELSE got

\* airspeedindicator.rs:39-50  read the initial device message and verify it.
\* read_until fills buf up to and including the first delimiter (or up to the
\* end of the stream), or a read fails before the delimiter (a timeout is a
\* failure here) with the n pieces read so far left in buf.
AirspeedBanner(p) ==
    /\ pc[p] = "banner"
    /\ \E stream \in Streams :
         \/ \E n \in 0..Len(Undelimited(stream)) :
              /\ buf' = Set(buf, p, Bytes(SubSeq(stream, 1, n)))
              /\ pc' = Set(pc, p, "done")
              /\ result' = Set(result, p, "Io")
         \/ /\ buf' = Set(buf, p, Bytes(read_until(stream)))
            /\ IF BannerOk(read_until(stream))
               THEN /\ pc' = Set(pc, p, "loop")
                    /\ result' = result
               ELSE /\ pc' = Set(pc, p, "done")
                    /\ result' = Set(result, p, "WrongDevice")
    /\ UNCHANGED <<connected, aircraft_sim_state, et, sim_rx, wire, lines_read,
                   last_line, last_write, dequeued, timer_log>>
    /\ UNCHANGED <<sim_vars, now>>

\* a forwarding loop with change detection: a state equal to the one dequeued
\* before it is dropped
AirspeedLoopDedup(p) ==
    /\ pc[p] = "loop"
    /\ IF sim_rx[p] # <<>>
       THEN /\ sim_rx' = Set(sim_rx, p, Tail(sim_rx[p]))
            /\ dequeued' = Set(dequeued, p, Append(dequeued[p], Head(sim_rx[p])))
            /\ IF dequeued[p] # <<>> /\ dequeued[p][Len(dequeued[p])] = Head(sim_rx[p])
               THEN UNCHANGED <<pc, result, wire, last_write>>
               ELSE WriteLine(p, AirspeedLine(Head(sim_rx[p])), "loop")
       ELSE IF SimGone
       THEN /\ pc' = Set(pc, p, "done")
            /\ result' = Set(result, p, "panic: unreachable")
            /\ UNCHANGED <<sim_rx, dequeued, wire, last_write>>
       ELSE UNCHANGED <<pc, result, sim_rx, dequeued, wire, last_write>>
    /\ UNCHANGED <<connected, aircraft_sim_state, et, lines_read, last_line, buf,
                   timer_log>>
    /\ UNCHANGED <<sim_vars, now>>

\* airspeedindicator.rs:52-68  one iteration of the state-forwarding loop
AirspeedLoop(p) ==
    /\ pc[p] = "loop"
    /\ IF sim_rx[p] # <<>>
       THEN /\ sim_rx' = Set(sim_rx, p, Tail(sim_rx[p]))
            /\ dequeued' = Set(dequeued, p, Append(dequeued[p], Head(sim_rx[p])))
            /\ WriteLine(p, AirspeedLine(Head(sim_rx[p])), "loop")
       ELSE IF SimGone
       THEN /\ pc' = Set(pc, p, "done")
            /\ result' = Set(result, p, "panic: unreachable")
            /\ UNCHANGED <<sim_rx, dequeued, wire, last_write>>
       ELSE UNCHANGED <<pc, result, sim_rx, dequeued, wire, last_write>>
    /\ UNCHANGED <<connected, aircraft_sim_state, et, lines_read, last_line, buf,
                   timer_log>>
    /\ UNCHANGED <<sim_vars, now>>

----------------------------------------------------------------------------
(* SimCommunicator *)

\* sim.rs:179  client.transmit_event(event): what reaches the host, the id
\* and the payload of the event, and the host event name the id was mapped
\* to by map_client_event_to_sim_event (sim.rs:190-203)
Transmission(event) ==
    [event |-> event, id |-> event_id(event), name |-> event_name(event),
     data |-> data(event), conn |-> conn, regs |-> regs]

\* a drain that does not look at self.connected
CommandGateOpen == TRUE

\* sim.rs:177  the guard of the command drain
CommandGate == sim_connected

\* a run that leaves self.connected as it is when the loop has returned
DisconnectedFlagStale == sim_connected

\* sim.rs:167  the value run stores in self.connected after the match
DisconnectedFlag == FALSE

\* a Quit arm that returns the exit signal
QuitReturnsExit == "Ok(true)"

\* sim.rs:209-212  what run_event_loop returns on Notification::Quit
QuitReturn == "Ok(false)"

\* sim.rs:152-164  SimConnect::new and the arm of the match that is taken
SimConnectNew ==
    /\ sim_pc = "connect"
    /\ conn < MaxConns
    /\ conn' = conn + 1
    /\ regs' = 0
    /\ \E ok \in BOOLEAN :
         IF ok
         THEN /\ sim_pc' = "recv"
              /\ sim_ret' = sim_ret
         ELSE /\ sim_pc' = "backoff"
              /\ sim_ret' = "NewErr"
    /\ UNCHANGED <<sim_connected, sim_txs, hw_rx, transmitted, notifs,
                   sim_event, sim_sleep, objects, pushed>>
    /\ UNCHANGED <<panel_vars, now>>

\* sim.rs:166-170  "We are now disconnected", then the backoff sleep
SimBackoff ==
    /\ sim_pc = "backoff"
    /\ sim_connected' = DisconnectedFlag
    /\ sim_sleep' = BACKOFF_MS
    /\ sim_pc' = "connect"
    /\ UNCHANGED <<sim_txs, hw_rx, transmitted, conn, regs, notifs, sim_ret,
                   sim_event, objects, pushed>>
    /\ UNCHANGED <<panel_vars, now>>

\* a run that returns from the thread on Err as it does on the exit signal
LoopReturnsAbort(ret) ==
    /\ sim_ret' = ret
    /\ regs' = 0
    /\ sim_pc' = IF ret \in {"Ok(true)", "Err"} THEN "exited" ELSE "backoff"

\* sim.rs:153-160  run_event_loop returns and run matches on the result; the
\* client is dropped with its registrations
LoopReturns(ret) ==
    /\ sim_ret' = ret
    /\ regs' = 0
    /\ sim_pc' = IF ret = "Ok(true)" THEN "exited" ELSE "backoff"

\* a drain that empties the command channel in one iteration
SimRecvDrainAll ==
    /\ sim_pc = "recv"
    /\ IF CommandGate /\ hw_rx # <<>>
       THEN /\ hw_rx' = <<>>
            /\ transmitted' = transmitted \o
                 [i \in DOMAIN hw_rx |-> Transmission(hw_rx[i].event)]
       ELSE UNCHANGED <<hw_rx, transmitted>>
    /\ sim_pc' = "dispatch"
    /\ UNCHANGED <<sim_ret, regs, sim_connected, sim_txs, conn, notifs, sim_event,
                   sim_sleep, objects, pushed>>
    /\ UNCHANGED <<panel_vars, now>>

\* sim.rs:176-183  the command drain of one loop iteration
SimRecv ==
    /\ sim_pc = "recv"
    /\ IF CommandGate /\ hw_rx # <<>>
       THEN /\ hw_rx' = Tail(hw_rx)
            /\ \E ok \in BOOLEAN :
                 IF ok
                 THEN /\ transmitted' = Append(transmitted, Transmission(Head(hw_rx).event))
                      /\ sim_pc' = "dispatch"
                      /\ UNCHANGED <<sim_ret, regs>>
                 ELSE /\ LoopReturns("Err")
                      /\ transmitted' = transmitted
       ELSE IF CommandGate /\ ~HwSendersAlive
       THEN /\ LoopReturns("Ok(true)")
            /\ UNCHANGED <<hw_rx, transmitted>>
       ELSE /\ sim_pc' = "dispatch"
            /\ UNCHANGED <<hw_rx, transmitted, sim_ret, regs>>
    /\ UNCHANGED <<sim_connected, sim_txs, conn, notifs, sim_event, sim_sleep,
                   objects, pushed>>
    /\ UNCHANGED <<panel_vars, now>>

\* sim.rs:216-220  the broadcast: the panels of sim_txs reached before the
\* first send that fails (all of them when no send fails)
Reached(txs) ==
    LET dead == {i \in DOMAIN txs : ~PanelAlive(txs[i])}
    IN  IF dead = {} THEN txs
        ELSE SubSeq(txs, 1, (CHOOSE i \in dead : \A j \in dead : i <= j) - 1)

\* the panels in a list
Members(txs) == {txs[i] : i \in DOMAIN txs}

\* what get_next_dispatch can return: Err, Ok(None), or Ok(Some(..)) of Open,
\* Quit, Object (with a telemetry sample of Data) or any other notification.
\* "Object!" is an Object notification that AircraftSimData::try_from rejects.
Notifications(Kinds, Data) ==
    [kind : Kinds \ {"Object"}, data : {MkData(0, 0, 0, 0, FALSE)}]
      \cup [kind : Kinds \cap {"Object"}, data : Data]

\* every outcome of get_next_dispatch
AllKinds == {"None", "Err", "Open", "Quit", "Other", "Object!", "Object"}

\* sim.rs:185-226  get_next_dispatch and the handling of what it returns.
SimDispatch(Kinds, Data) ==
    /\ sim_pc = "dispatch"
    /\ \E n \in Notifications(Kinds, Data) :
         /\ n.kind # "None" => notifs < MaxNotifs
         /\ sim_event' = n.kind
         /\ notifs' = IF n.kind = "None" THEN notifs ELSE notifs + 1
         /\ objects' = IF n.kind = "Object"
                       THEN Append(objects, StateFrom(n.data)) ELSE objects
         /\ CASE n.kind \in {"None", "Other"} ->
                   /\ sim_pc' = "recv"
                   /\ sim_sleep' = FRAME_SLEEP_MS
                   /\ UNCHANGED <<sim_connected, sim_rx, sim_ret, regs>>
              [] n.kind \in {"Err", "Object!"} ->
                   /\ LoopReturns("Err")
                   /\ UNCHANGED <<sim_connected, sim_rx, sim_sleep>>
              [] n.kind = "Quit" ->
                   /\ LoopReturns(QuitReturn)
                   /\ UNCHANGED <<sim_connected, sim_rx, sim_sleep>>
              [] n.kind = "Open" ->
                   \E k \in 0..RegCalls :
                     IF k = RegCalls
                     THEN /\ regs' = regs + k
                          /\ sim_connected' = TRUE
                          /\ sim_pc' = "recv"
                          /\ sim_sleep' = FRAME_SLEEP_MS
                          /\ UNCHANGED <<sim_rx, sim_ret>>
                     ELSE /\ LoopReturns("Err")
                          /\ UNCHANGED <<sim_connected, sim_rx, sim_sleep>>
              [] n.kind = "Object" ->
                   LET got == Members(Reached(sim_txs))
                   IN  /\ sim_rx' = [p \in Panels |->
                                       IF p \in got
                                       THEN Append(sim_rx[p], StateFrom(n.data))
                                       ELSE sim_rx[p]]
                       /\ IF Reached(sim_txs) = sim_txs
                          THEN /\ sim_pc' = "recv"
                               /\ sim_sleep' = FRAME_SLEEP_MS
                               /\ regs' = regs
                          ELSE /\ sim_pc' = "panicked"
                               /\ sim_sleep' = sim_sleep
                               /\ regs' = 0
                       /\ UNCHANGED <<sim_connected, sim_ret>>
    /\ UNCHANGED <<sim_txs, hw_rx, transmitted, conn, pushed>>
    /\ UNCHANGED <<pc, connected, aircraft_sim_state, et, wire, result,
                   lines_read, last_line, last_write, dequeued, buf, timer_log, now>>

----------------------------------------------------------------------------
(* Specifications *)

\* the state after main has built the channels and the threads start; `txs`
\* is the list of panels of the configuration and `air` the airspeed panels
\* among them (the others are EventSim panels)
InitConfig(txs, air) ==
    /\ pc = [p \in Panels |-> IF p \notin Members(txs) THEN "absent"
                               ELSE IF p \in air THEN "anew" ELSE "new"]
    /\ connected = [p \in Panels |-> FALSE]
    /\ aircraft_sim_state = [p \in Panels |-> <<>>]
    /\ et = [p \in Panels |-> 0]
    /\ sim_rx = [p \in Panels |-> <<>>]
    /\ wire = [p \in Panels |-> <<>>]
    /\ result = [p \in Panels |-> "running"]
    /\ lines_read = [p \in Panels |-> 0]
    /\ last_line = [p \in Panels |-> "<none>"]
    /\ last_write = [p \in Panels |-> 0]
    /\ dequeued = [p \in Panels |-> <<>>]
    /\ buf = [p \in Panels |-> ""]
    /\ timer_log = [p \in Panels |-> <<>>]
    /\ now = 0
    /\ sim_pc = "connect"
    /\ sim_connected = FALSE
    /\ sim_txs = txs
    /\ hw_rx = <<>>
    /\ transmitted = <<>>
    /\ conn = 0
    /\ regs = 0
    /\ notifs = 0
    /\ sim_ret = "none"
    /\ sim_event = "none"
    /\ sim_sleep = 0
    /\ objects = <<>>
    /\ pushed = <<>>

\* a configuration of EventSim panels
InitWith(started) == InitConfig(started, {})

Init == InitWith(<<1>>)

PanelNext(Lines) ==
    \E p \in Panels :
      \/ PanelOpen(p) \/ PanelSyn(p)
      \/ PanelRecv(p) \/ PanelRead(p, Lines) \/ PanelKeepalive(p)

SimNext(Kinds, Data) ==
    SimConnectNew \/ SimBackoff \/ SimRecv \/ SimDispatch(Kinds, Data)

\* one EventSim panel and the Simulation Link, the clock standing still
Next == PanelNext(CoreLines) \/ SimNext(AllKinds, HostData)

Spec == Init /\ [][Next]_vars

\* lines of the keepalive exchange and the handshake
KeepaliveLines == {"SYN|ACK", "PING"}

\* one telemetry sample
OneSample == {MkData(0, 0, 0, 0, TRUE)}

\* the same system with the clock running, a host that only sends telemetry
\* and a device that only shakes hands and probes
NextKeepalive ==
    PanelNext(KeepaliveLines) \/ SimNext({"None", "Object"}, OneSample) \/ Tick

SpecKeepalive == Init /\ [][NextKeepalive]_vars

\* lines of a device that shakes hands, resets, sends a command or noise
TwoLines == {"SYN|ACK", "RST", "MISC1:1", "garbage"}

\* two EventSim panels in the fan-out list, panel 1 first
InitTwo == InitWith(<<1, 2>>)

NextTwo == PanelNext(TwoLines) \/ SimNext({"None", "Open", "Object"}, OneSample)

SpecTwo == InitTwo /\ [][NextTwo]_vars

----------------------------------------------------------------------------
(* Vocabulary of the properties *)

\* panel p takes the step of that name
RecvStep(p) == pc[p] = "recv" /\ pc'[p] # "recv"
ReadStep(p) == pc[p] = "read" /\ pc'[p] # "read"
KeepaliveStep(p) == pc[p] = "keepalive" /\ pc'[p] # "keepalive"

\* panel p dequeues a state in this step
Dequeues(p) == Len(dequeued'[p]) = Len(dequeued[p]) + 1

\* the lines panel p writes in this step
Written(p) == SubSeq(wire'[p], Len(wire[p]) + 1, Len(wire'[p]))

\* a command of panel p enters the command channel in this step
Pushes(p) ==
    /\ Len(hw_rx') = Len(hw_rx) + 1
    /\ hw_rx'[Len(hw_rx')].from = p

\* occurrences of x in seq
Count(seq, x) == Cardinality({i \in DOMAIN seq : seq[i] = x})

\* the value a gear LED line carries, from the wire protocol (spec section 6)
LedDigit(status) == IF status = "Up" THEN "0" ELSE IF status = "Down" THEN "1" ELSE "2"

\* the four state lines of a state, from the wire protocol (spec section 6)
Burst(b) ==
    <<"PARKING_BRAKE:" \o (IF b.parking_brake_indicator THEN "1" ELSE "0"),
      "FRONT_GEAR_LED:" \o LedDigit(b.gear_center_state),
      "LEFT_GEAR_LED:" \o LedDigit(b.gear_left_state),
      "RIGHT_GEAR_LED:" \o LedDigit(b.gear_right_state)>>

----------------------------------------------------------------------------
(* C1 *)

\* C1: a connected link that dequeues a state equal to the state it
\* remembers writes no line to the serial device for it.
C1_EqualStateNotWritten ==
    [][\A p \in Panels :
         (RecvStep(p) /\ Dequeues(p) /\ connected[p]
            /\ aircraft_sim_state[p] = <<Head(sim_rx[p])>>)
         => wire'[p] = wire[p]]_vars

\* two equal states dequeued, one burst on the wire
C1_Witness ==
    \E p \in Panels :
      /\ Len(dequeued[p]) = 2
      /\ dequeued[p][1] = dequeued[p][2]
      /\ wire[p] = <<"SYN", "ACK">> \o Burst(dequeued[p][1])
      /\ pc[p] = "read"

----------------------------------------------------------------------------
(* C2 *)

\* C2: a connected link that dequeues a state b different from the one it
\* remembers, or remembers none, writes PARKING_BRAKE, FRONT_GEAR_LED,
\* LEFT_GEAR_LED, RIGHT_GEAR_LED with b's values, in that order and once each,
\* and remembers b, in the same step that dequeued b and no other state.  (A
\* serial write that fails ends run with Io after a prefix of the four.)
C2_ChangedStateWritten ==
    [][\A p \in Panels :
         (RecvStep(p) /\ Dequeues(p)
            /\ aircraft_sim_state[p] # <<Head(sim_rx[p])>>)
         => LET b == Head(sim_rx[p])
            IN  /\ connected[p]
                /\ sim_rx'[p] = Tail(sim_rx[p])
                /\ \/ /\ pc'[p] = "read"
                      /\ Written(p) = Burst(b)
                      /\ aircraft_sim_state'[p] = <<b>>
                   \/ /\ pc'[p] = "done" /\ result'[p] = "Io"
                      /\ \E k \in 0..3 : Written(p) = SubSeq(Burst(b), 1, k)
                      /\ aircraft_sim_state'[p] = aircraft_sim_state[p]]_vars

\* a first state and then a different one, each written as a burst
C2_Witness ==
    \E p \in Panels :
      /\ Len(dequeued[p]) = 2
      /\ dequeued[p][1] # dequeued[p][2]
      /\ wire[p] = <<"SYN", "ACK">> \o Burst(dequeued[p][1]) \o Burst(dequeued[p][2])
      /\ aircraft_sim_state[p] = <<dequeued[p][2]>>

----------------------------------------------------------------------------
(* C3 *)

\* C3 as stated: the link becomes Connected only by reading SYN|ACK, no other
\* line makes it Connected, and the run holds exactly one ACK (none before
\* the link is Connected, never a second).
C3_Original ==
    [][\A p \in Panels :
         /\ (connected'[p] /\ ~connected[p])
              => (ReadStep(p) /\ last_line'[p] = "SYN|ACK")
         /\ Count(wire'[p], "ACK") <= 1
         /\ connected'[p] => Count(wire'[p], "ACK") = 1]_vars

\* C3 amended: the link becomes Connected only by reading SYN|ACK, no other
\* line makes it Connected, and it writes exactly one ACK for every SYN|ACK
\* it reads (also when it is already Connected) and no ACK otherwise.
C3_OneAckPerSynAck ==
    [][\A p \in Panels :
         /\ (connected'[p] /\ ~connected[p])
              => (ReadStep(p) /\ last_line'[p] = "SYN|ACK")
         /\ (ReadStep(p) /\ last_line'[p] # "SYN|ACK")
              => connected'[p] = connected[p]
         /\ (ReadStep(p) /\ last_line'[p] = "SYN|ACK" /\ pc'[p] # "done")
              => (Written(p) = <<"ACK">> /\ connected'[p])
         /\ ~(ReadStep(p) /\ last_line'[p] = "SYN|ACK")
              => Count(wire'[p], "ACK") = Count(wire[p], "ACK")]_vars

\* a line that is not SYN|ACK was read and ignored, then SYN|ACK connected
\* the link with one ACK
C3_Witness ==
    \E p \in Panels :
      /\ connected[p]
      /\ lines_read[p] = 2
      /\ last_line[p] = "SYN|ACK"
      /\ wire[p] = <<"SYN", "ACK">>
      /\ hw_rx = <<>> /\ transmitted = <<>>

----------------------------------------------------------------------------
(* C4 *)

\* C4 as stated: while the link is not yet Connected, a line other than
\* SYN|ACK and RST pushes no command and causes no line to be written.
C4_Claim ==
    [][\A p \in Panels :
         (ReadStep(p) /\ ~connected[p] /\ last_line'[p] \in AllLines \ {"SYN|ACK", "RST"})
         => (~Pushes(p) /\ wire'[p] = wire[p])]_vars

----------------------------------------------------------------------------
(* C10 *)

\* C10: reading RST, Connected or not, ends run with Disconnect; from then
\* on the link writes nothing, pushes nothing and never runs again.
C10_ResetIsFinal ==
    [][\A p \in Panels :
         /\ (ReadStep(p) /\ last_line'[p] = "RST")
              => /\ pc'[p] = "done" /\ result'[p] = "Disconnect"
                 /\ wire'[p] = wire[p] /\ ~Pushes(p)
         /\ result[p] = "Disconnect"
              => /\ pc'[p] = "done" /\ result'[p] = "Disconnect"
                 /\ wire'[p] = wire[p] /\ ~Pushes(p)
                 /\ connected'[p] = connected[p]
                 /\ lines_read'[p] = lines_read[p]
                 /\ dequeued'[p] = dequeued[p]]_vars

\* a Connected link that has read RST, with a state still queued for it
C10_Witness ==
    \E p \in Panels :
      /\ result[p] = "Disconnect"
      /\ connected[p]
      /\ sim_rx[p] # <<>>

----------------------------------------------------------------------------
(* C8 *)

\* the sim thread handles a notification in this step
Handles(kind) ==
    sim_pc = "dispatch" /\ notifs' = notifs + 1 /\ sim_event' = kind

\* C8: on a Quit notification run_event_loop returns Ok(false), not an error
\* and not the exit signal; run then clears `connected`, sleeps the 5 s
\* backoff and goes back to SimConnect::new; the thread does not end.
C8_QuitReconnects ==
    [][/\ Handles("Quit")
            => (sim_ret' = "Ok(false)" /\ sim_pc' = "backoff")
       /\ (sim_pc = "backoff" /\ sim_pc' # "backoff")
            => /\ sim_pc' = "connect"
               /\ ~sim_connected'
               /\ sim_sleep' = BACKOFF_MS
       /\ (sim_pc = "connect" /\ sim_pc' # "connect")
            => (conn' = conn + 1 /\ sim_pc' \in {"recv", "backoff"})]_vars

\* a link that was connected and transmitting took a Quit, backed off and is
\* running the loop on a second client
C8_Witness ==
    /\ sim_event = "Quit"
    /\ sim_ret = "Ok(false)"
    /\ transmitted # <<>>
    /\ conn = 2
    /\ sim_pc = "recv"
    /\ ~sim_connected
    /\ sim_sleep = BACKOFF_MS

----------------------------------------------------------------------------
(* C9 *)

\* C9: every command transmitted to the host went out on a client on which
\* the Open notification was handled and register_object plus all 14 event
\* mappings succeeded (once for each Open the client has handled).
C9_TransmitOnlyRegistered ==
    /\ \A i \in DOMAIN transmitted :
         /\ transmitted[i].regs >= 1 + 14
         /\ transmitted[i].regs % (1 + 14) = 0
         /\ transmitted[i].conn \in 1..conn
    /\ (sim_connected /\ sim_pc \in {"recv", "dispatch"})
         => (regs >= 1 + 14 /\ regs % (1 + 14) = 0)

\* after a Quit on a registered client, a command waits on the second
\* client, which has not handled Open; the only transmission is the old one
C9_Witness ==
    /\ conn = 2
    /\ sim_pc = "dispatch"
    /\ sim_event = "Quit"
    /\ hw_rx # <<>>
    /\ Len(transmitted) = 1
    /\ transmitted[1].conn = 1
    /\ regs = 0

----------------------------------------------------------------------------
(* C5 *)

\* C5 as stated: an iteration that goes on writes a PING exactly when the
\* link is Connected and more than 500 ms have passed since the link last
\* wrote a line of any kind; at most one PING per iteration.
C5_Original ==
    [][\A p \in Panels :
         /\ (KeepaliveStep(p) /\ pc'[p] # "done")
              => /\ Written(p) \in {<<>>, <<"PING">>}
                 /\ Written(p) = <<"PING">>
                      <=> (connected[p] /\ now > last_write[p] + 500)
         /\ ~KeepaliveStep(p) => Count(wire'[p], "PING") = Count(wire[p], "PING")]_vars

\* C5 amended: an iteration that goes on writes a PING exactly when more than
\* 500 ms have passed since the last PING was written (since the reader was
\* set up, before the first PING), Connected or not and whatever other lines
\* were written since; only a PING restarts the interval; at most one PING is
\* written per iteration.  (Then a Connected link that wrote no line for
\* more than 500 ms writes a PING.)
C5_PingEveryInterval ==
    [][\A p \in Panels :
         /\ (KeepaliveStep(p) /\ pc'[p] # "done")
              => /\ Written(p) \in {<<>>, <<"PING">>}
                 /\ Written(p) = <<"PING">> <=> now > et[p] + 500
                 /\ et'[p] = IF Written(p) = <<"PING">> THEN now ELSE et[p]
                 /\ (connected[p] /\ now > last_write[p] + 500)
                      => Written(p) = <<"PING">>
         /\ (KeepaliveStep(p) /\ pc'[p] = "done")
              => (now > et[p] + 500 /\ Written(p) = <<>> /\ result'[p] = "Io")
         /\ (~KeepaliveStep(p) /\ pc[p] # "reset")
              => /\ Count(wire'[p], "PING") = Count(wire[p], "PING")
                 /\ et'[p] = et[p]]_vars

\* a Connected link wrote PONG at 500 ms and then PING at 750 ms, 250 ms
\* after its last line
C5_Witness ==
    \E p \in Panels :
      /\ connected[p]
      /\ wire[p] = <<"SYN", "ACK", "PONG", "PING">>
      /\ et[p] = 750
      /\ pc[p] = "recv"

----------------------------------------------------------------------------
(* C6 *)

\* the command each wire token stands for (spec section 6)
TokenTable ==
    [t \in CommandTokens |->
       CASE t = "MISC1:0" -> "TaxiLightsOff"      [] t = "MISC1:1" -> "TaxiLightsOn"
         [] t = "MISC2:0" -> "LandingLightsOff"   [] t = "MISC2:1" -> "LandingLightsOn"
         [] t = "MISC3:0" -> "NavLightsOff"       [] t = "MISC3:1" -> "NavLightsOn"
         [] t = "MISC4:0" -> "StrobeLightsOff"    [] t = "MISC4:1" -> "StrobeLightsOn"
         [] t = "FLAPS_UP" -> "FlapsUp"           [] t = "FLAPS_DN" -> "FlapsDown"
         [] t = "PARKING_BRAKE:0" -> "ParkingBrakeOff"
         [] t = "PARKING_BRAKE:1" -> "ParkingBrakeOn"
         [] t = "LANDING_GEAR:0" -> "LandingGearUp"
         [] t = "LANDING_GEAR:1" -> "LandingGearDown"]

\* C6 as stated: each of the 14 tokens a Panel Link reads pushes exactly one
\* command, the variant of the table, distinct tokens giving distinct
\* variants; any other token pushes nothing, is no error and leaves the link
\* running.
C6_Claim ==
    [][\A p \in Panels :
         /\ (ReadStep(p) /\ last_line'[p] \in CommandTokens)
              => /\ hw_rx' = Append(hw_rx, [event |-> TokenTable[last_line'[p]], from |-> p])
                 /\ pc'[p] = "keepalive" /\ result'[p] = "running"
         /\ (ReadStep(p) /\ last_line'[p] \in AllLines \ (CommandTokens \cup ControlTokens))
              => /\ hw_rx' = hw_rx
                 /\ pc'[p] = "keepalive" /\ result'[p] = "running"
         /\ \A t, u \in CommandTokens : TokenTable[t] = TokenTable[u] => t = u]_vars

----------------------------------------------------------------------------
(* C7 *)

\* C7 as stated: when the sim thread broadcasts an ObjectData notification
\* and the receiver of a panel of the fan-out list is dropped, every other
\* panel of the list still gets the state, the loop keeps running and just
\* the dropped panels leave the list.
C7_Claim ==
    [][(Handles("Object") /\ \E a \in Members(sim_txs) : ~PanelAlive(a))
         => /\ \A b \in Members(sim_txs) :
                 PanelAlive(b) => Len(sim_rx'[b]) = Len(sim_rx[b]) + 1
            /\ sim_pc' = "recv"
            /\ Members(sim_txs') = {b \in Members(sim_txs) : PanelAlive(b)}]_vars

----------------------------------------------------------------------------
(* C11 *)

\* the step of the sim thread fails on the host side: SimConnect::new fails,
\* get_next_dispatch fails, a registration of the Open arm fails, the
\* telemetry of an Object notification does not decode, or transmit_event
\* fails for the command just taken from the channel
HostFailure ==
    \/ sim_pc = "connect" /\ conn' = conn + 1 /\ sim_pc' # "recv"
    \/ Handles("Err")
    \/ Handles("Open") /\ regs' # regs + 1 + 14
    \/ Handles("Object!")
    \/ sim_pc = "recv" /\ Len(hw_rx') < Len(hw_rx)
         /\ transmitted' = transmitted

\* C11: every host-side failure (connect, poll, registration, telemetry
\* decoding, transmit) takes the sim thread to the backoff and never ends or
\* aborts it; the backoff stores connected = false, sleeps 5 s and goes back
\* to SimConnect::new, whose next step is a new connection attempt.
C11_FailuresAbsorbed ==
    [][/\ HostFailure
            => /\ sim_pc' = "backoff"
               /\ sim_ret' \in {"Err", "NewErr"}
               /\ regs' = 0
       /\ (sim_pc = "backoff" /\ sim_ret \in {"Err", "NewErr"} /\ sim_pc' # "backoff")
            => /\ sim_pc' = "connect"
               /\ ~sim_connected'
               /\ sim_sleep' = 5000
       /\ (sim_pc = "connect" /\ sim_ret \in {"Err", "NewErr"} /\ sim_pc' # "connect")
            => (conn' = conn + 1 /\ sim_pc' \in {"recv", "backoff"})
       /\ sim_pc' \in {"exited", "panicked"} => ~HostFailure]_vars

\* a registered link that had transmitted a command got telemetry it could
\* not decode, backed off 5 s with connected = false and runs a new client
C11_Witness ==
    /\ sim_event = "Object!"
    /\ sim_ret = "Err"
    /\ transmitted # <<>>
    /\ conn = 2
    /\ sim_pc = "recv"
    /\ ~sim_connected
    /\ sim_sleep = BACKOFF_MS

----------------------------------------------------------------------------
(* C12 *)

\* C12 as stated: for every panel of the fan-out list whose link is running,
\* the states the link has dequeued followed by the states still waiting in
\* its channel are exactly the ObjectData notifications the sim thread
\* received, in order: none lost, none twice, none out of order.
C12_Claim ==
    \A p \in Members(sim_txs) :
      /\ Len(dequeued[p]) <= Len(objects)
      /\ dequeued[p] = SubSeq(objects, 1, Len(dequeued[p]))
      /\ PanelAlive(p) => dequeued[p] \o sim_rx[p] = objects

----------------------------------------------------------------------------
(* C13 *)

\* lines of two devices that send commands
FanInLines == {"FLAPS_UP", "MISC1:1"}

\* two EventSim panels pushing commands, and a host that is connected to
\* once, sends Open once on a connection and may fail a registration or a
\* transmission
NextFanIn ==
    \/ PanelNext(FanInLines)
    \/ SimNext({"None", "Open"}, OneSample) /\ conn' <= 1 /\ regs' <= RegCalls

SpecFanIn == InitTwo /\ [][NextFanIn]_vars

\* the commands the sim thread has taken from the command channel so far
Taken == Len(pushed) - Len(hw_rx)

\* C13: the command channel holds the commands pushed and not yet taken, in
\* push order, and the commands transmitted to the host are a subsequence of
\* the commands taken, in push order, each push transmitted at most once
\* (so the commands of one panel keep that panel's decode order).
C13_FanInOrder ==
    /\ Taken \in 0..Len(pushed)
    /\ hw_rx = [i \in 1..Len(hw_rx) |->
                 [event |-> pushed[Taken + i].event, from |-> pushed[Taken + i].from]]
    /\ \E f \in [DOMAIN transmitted -> 1..Taken] :
         /\ \A i, j \in DOMAIN transmitted : i < j => f[i] < f[j]
         /\ \A i \in DOMAIN transmitted : transmitted[i].event = pushed[f[i]].event

\* panel 2 pushed TaxiLightsOn, then panel 1 pushed FlapsUp, and the host got
\* TaxiLightsOn and then FlapsUp
C13_Witness ==
    /\ Len(pushed) = 2
    /\ pushed[1].event = "TaxiLightsOn" /\ pushed[1].from = 2
    /\ pushed[2].event = "FlapsUp" /\ pushed[2].from = 1
    /\ Len(transmitted) = 2
    /\ transmitted[1].event = "TaxiLightsOn"
    /\ transmitted[2].event = "FlapsUp"

----------------------------------------------------------------------------
(* C14 *)

\* what a device that shakes hands and echoes the parking brake lines it
\* was sent can deliver to panel p
EchoLines(p) ==
    {"SYN|ACK"} \cup
      ({wire[p][i] : i \in DOMAIN wire[p]} \cap {"PARKING_BRAKE:0", "PARKING_BRAKE:1"})

\* one EventSim panel on an echoing device, and a host that sends telemetry
NextEcho ==
    \/ \E p \in Panels :
         \/ PanelOpen(p) \/ PanelSyn(p)
         \/ PanelRecv(p) \/ PanelRead(p, EchoLines(p)) \/ PanelKeepalive(p)
    \/ SimNext({"None", "Open", "Object"}, HostData)

SpecEcho == Init /\ [][NextEcho]_vars

\* the parking brake line, command and payload of a boolean (spec section 6)
PbLine(v) == IF v THEN "PARKING_BRAKE:1" ELSE "PARKING_BRAKE:0"
PbEvent(v) == IF v THEN "ParkingBrakeOn" ELSE "ParkingBrakeOff"
PbPayload(v) == IF v THEN 1 ELSE 0

\* C14: the first line written for a state with parking_brake = v is
\* PARKING_BRAKE:<v as 0/1>; a link that reads that line back pushes
\* ParkingBrakeOn for v = true and ParkingBrakeOff for v = false; and that
\* command goes to the host with payload 1, respectively 0.
C14_ParkingBrakeRoundTrip ==
    [][\A p \in Panels : \A v \in BOOLEAN :
         /\ (RecvStep(p) /\ Dequeues(p) /\ Written(p) # <<>>
               /\ Head(sim_rx[p]).parking_brake_indicator = v)
              => Written(p)[1] = PbLine(v)
         /\ (ReadStep(p) /\ last_line'[p] = PbLine(v))
              => /\ \E i \in DOMAIN dequeued[p] :
                      dequeued[p][i].parking_brake_indicator = v
                 /\ Pushes(p)
                 /\ hw_rx'[Len(hw_rx')].event = PbEvent(v)
         /\ (Len(transmitted') = Len(transmitted) + 1 /\ Head(hw_rx).event = PbEvent(v))
              => /\ transmitted'[Len(transmitted')].event = PbEvent(v)
                 /\ transmitted'[Len(transmitted')].data = PbPayload(v)]_vars

\* a state with the parking brake set was written, its line came back, and
\* the host got ParkingBrakeOn with payload 1
C14_Witness ==
    \E p \in Panels :
      /\ Len(dequeued[p]) = 1
      /\ dequeued[p][1].parking_brake_indicator
      /\ wire[p] = <<"SYN", "ACK">> \o Burst(dequeued[p][1])
      /\ last_line[p] = "PARKING_BRAKE:1"
      /\ Len(transmitted) = 1
      /\ transmitted[1].event = "ParkingBrakeOn"
      /\ transmitted[1].data = 1

----------------------------------------------------------------------------
(* C15 *)

\* one EventSim panel whose device sends any of the 14 command tokens, and a
\* host that is connected to once, sends Open once on a connection and
\* accepts the registrations
NextTable ==
    \/ PanelNext(CommandTokens)
    \/ SimNext({"None", "Open"}, OneSample) /\ conn' <= 1 /\ regs' <= RegCalls

SpecTable == Init /\ [][NextTable]_vars

\* the mapping as a table: 14 variants, ids pairwise distinct, the parking
\* brake variants on PARKING_BRAKE_SET with payloads 1 and 0, payload 0 for
\* every other variant
TableFacts ==
    /\ Cardinality(SimClientEventSet) = 14
    /\ \A e, f \in SimClientEventSet : e # f => event_id(e) # event_id(f)
    /\ event_name("ParkingBrakeOn") = "PARKING_BRAKE_SET"
    /\ event_name("ParkingBrakeOff") = "PARKING_BRAKE_SET"
    /\ data("ParkingBrakeOn") = 1
    /\ data("ParkingBrakeOff") = 0
    /\ \A e \in SimClientEventSet \ {"ParkingBrakeOn", "ParkingBrakeOff"} : data(e) = 0

\* C15: the 14 variants have pairwise distinct event ids; the two parking
\* brake variants go to the host event PARKING_BRAKE_SET, ParkingBrakeOn with
\* payload 1 and ParkingBrakeOff with payload 0; every other variant has
\* payload 0; and whatever the state of the run, a transmitted command
\* carries the id, the host event name and the payload of its variant.
C15_CommandTable ==
    /\ TableFacts
    /\ \A i, j \in DOMAIN transmitted :
         /\ transmitted[i].event \in SimClientEventSet
         /\ transmitted[i].id \in 0..13
         /\ transmitted[i].data = IF transmitted[i].event = "ParkingBrakeOn" THEN 1 ELSE 0
         /\ transmitted[i].event = transmitted[j].event
              <=> transmitted[i].id = transmitted[j].id
         /\ transmitted[i].event = transmitted[j].event
              => transmitted[i].name = transmitted[j].name

\* the host got ParkingBrakeOn and then ParkingBrakeOff: two ids, one host
\* event, payloads 1 and 0
C15_Witness ==
    /\ Len(transmitted) = 2
    /\ transmitted[1].event = "ParkingBrakeOn"
    /\ transmitted[2].event = "ParkingBrakeOff"
    /\ transmitted[1].id # transmitted[2].id
    /\ transmitted[1].name = "PARKING_BRAKE_SET"
    /\ transmitted[2].name = "PARKING_BRAKE_SET"
    /\ transmitted[1].data = 1
    /\ transmitted[2].data = 0

----------------------------------------------------------------------------
(* C16 *)

AirspeedNext ==
    \E p \in Panels :
      AirspeedOpen(p) \/ AirspeedClone(p) \/ AirspeedBanner(p) \/ AirspeedLoop(p)

\* one airspeed panel and a host that sends telemetry
NextAirspeed == AirspeedNext \/ SimNext({"None", "Object"}, HostData)

InitAirspeed == InitConfig(<<1>>, {1})

SpecAirspeed == InitAirspeed /\ [][NextAirspeed]_vars

\* C16: the airspeed link enters its loop only when the bytes read up to and
\* including the first ';' are exactly Name<Airspeed-Indicator>; ; when the
\* read gives other bytes run returns WrongDevice; and a link that has not
\* entered the loop has dequeued no state and written nothing.  (A read that
\* fails ends run with Io, the bytes read so far short of the signature, also
\* with nothing dequeued or written.)
C16_BannerCheck ==
    [][\A p \in Panels :
         /\ (pc[p] = "banner" /\ pc'[p] = "loop")
              => buf'[p] = "Name<Airspeed-Indicator>;"
         /\ (pc[p] = "banner" /\ pc'[p] = "done")
              => /\ result'[p] \in {"WrongDevice", "Io"}
                 /\ buf'[p] # "Name<Airspeed-Indicator>;"
         /\ (pc[p] = "banner" /\ pc'[p] # "banner" /\ result'[p] # "Io"
               /\ buf'[p] # "Name<Airspeed-Indicator>;")
              => (pc'[p] = "done" /\ result'[p] = "WrongDevice")
         /\ (pc'[p] \in {"anew", "areset", "banner"}
               \/ result'[p] \in {"WrongDevice", "SerialOpen", "Serial"})
              => (dequeued'[p] = <<>> /\ wire'[p] = <<>>)
         /\ (pc[p] \in {"anew", "areset", "banner"} /\ pc'[p] = "done")
              => (dequeued'[p] = <<>> /\ wire'[p] = <<>> /\ sim_rx'[p] = sim_rx[p])]_vars

\* a device whose signature came second was refused with WrongDevice, with a
\* state waiting in the channel, nothing dequeued and nothing written
C16_Witness ==
    \E p \in Panels :
      /\ result[p] = "WrongDevice"
      /\ buf[p] = "x;"
      /\ sim_rx[p] # <<>>
      /\ dequeued[p] = <<>>
      /\ wire[p] = <<>>

----------------------------------------------------------------------------
(* C17 *)

\* C17 as stated: with several panels in the configuration, an iteration of
\* the sim thread that finds the command channel empty with every command
\* sender dropped does not end the thread: the loop goes on to poll the host.
C17_Claim ==
    [][(sim_pc = "recv" /\ sim_pc' # "recv" /\ hw_rx = <<>>
          /\ ~HwSendersAlive /\ Len(sim_txs) > 1)
         => (sim_pc' = "dispatch" /\ sim_ret' = sim_ret)]_vars

----------------------------------------------------------------------------
(* C18 *)

\* lines of a device that shakes hands, probes and sends a command
LiveLines == {"SYN|ACK", "PING", "MISC1:1"}

\* what the host returns: nothing, Open, Quit, an error; it sends no
\* telemetry, so that the state channels stay empty
LiveKinds == {"None", "Open", "Quit", "Err"}

\* one step of the thread of panel p
PanelStep(p) ==
    \/ PanelOpen(p) \/ PanelSyn(p)
    \/ PanelRecv(p) \/ PanelRead(p, LiveLines) \/ PanelKeepalive(p)

\* one step of the sim thread
SimStep == SimNext(LiveKinds, OneSample)

NextLive == (\E p \in Panels : PanelStep(p)) \/ SimStep

\* two panels and the sim thread, every thread scheduled again and again
SpecLive ==
    /\ InitTwo
    /\ [][NextLive]_vars
    /\ \A p \in Panels : WF_vars(PanelStep(p))
    /\ WF_vars(SimStep)

\* C18 as stated, under fair scheduling of every thread: a Panel Link whose
\* state channel stays empty for ever completes every step of its iterations
\* (setup, receive, serial read, keepalive), and a SYN|ACK it reads connects
\* it and is answered with ACK, a PING with PONG, a command token is pushed
\* onto the command channel; and a Simulation Link whose command channel
\* stays empty for ever completes every step of its iterations: the command
\* drain leads to the notification handling, the notification handling to
\* the next drain or the backoff, the backoff to the next connection attempt.
C18_Claim ==
    /\ \A p \in Panels :
         [](sim_rx[p] = <<>>)
           => /\ (pc[p] = "new") ~> (pc[p] \in {"reset", "done"})
              /\ (pc[p] = "reset") ~> (pc[p] \in {"recv", "done"})
              /\ (pc[p] = "recv") ~> (pc[p] \in {"read", "done"})
              /\ (pc[p] = "read") ~> (pc[p] \in {"keepalive", "done"})
              /\ (pc[p] = "keepalive") ~> (pc[p] \in {"recv", "done"})
    /\ [](hw_rx = <<>>)
         => /\ (sim_pc = "recv") ~> (sim_pc = "dispatch")
            /\ (sim_pc = "dispatch") ~> (sim_pc \in {"recv", "backoff"})
            /\ (sim_pc = "backoff") ~> (sim_pc = "connect")
    /\ [][\A p \in Panels :
            (ReadStep(p) /\ pc'[p] # "done")
            => /\ last_line'[p] = "SYN|ACK" => (connected'[p] /\ Written(p) = <<"ACK">>)
               /\ last_line'[p] = "PING" => Written(p) = <<"PONG">>
               /\ last_line'[p] = "MISC1:1"
                    => hw_rx' = Append(hw_rx, [event |-> "TaxiLightsOn", from |-> p])]_vars

----------------------------------------------------------------------------
(* C19 *)

\* panel p's own state other than its position and its wire is unchanged
LinkStateUnchanged(p) ==
    /\ connected'[p] = connected[p]
    /\ aircraft_sim_state'[p] = aircraft_sim_state[p]
    /\ et'[p] = et[p]
    /\ sim_rx'[p] = sim_rx[p]
    /\ dequeued'[p] = dequeued[p]
    /\ hw_rx' = hw_rx

\* C19: a PING line read makes the link write exactly one PONG and nothing
\* else happens (no push, no change of the connected flag or the remembered
\* state); a PONG line read causes no write, no push and no such change.  (A
\* PONG whose write fails ends run with Io.)
C19_KeepaliveInbound ==
    [][\A p \in Panels :
         /\ (ReadStep(p) /\ last_line'[p] = "PING")
              => /\ LinkStateUnchanged(p)
                 /\ \/ /\ Written(p) = <<"PONG">>
                       /\ pc'[p] = "keepalive" /\ result'[p] = "running"
                    \/ /\ Written(p) = <<>>
                       /\ pc'[p] = "done" /\ result'[p] = "Io"
         /\ (ReadStep(p) /\ last_line'[p] = "PONG")
              => /\ LinkStateUnchanged(p)
                 /\ Written(p) = <<>>
                 /\ pc'[p] = "keepalive" /\ result'[p] = "running"]_vars

\* a PING and then a PONG were read: one PONG on the wire, nothing pushed,
\* the link still not connected
C19_Witness ==
    \E p \in Panels :
      /\ lines_read[p] = 2
      /\ last_line[p] = "PONG"
      /\ wire[p] = <<"SYN", "PONG">>
      /\ pushed = <<>>
      /\ ~connected[p]
      /\ pc[p] = "keepalive"

----------------------------------------------------------------------------
(* C20 *)

\* C20: a serial read that times out changes nothing of the link and the
\* loop goes on; a read that fails otherwise makes run return Io; a step in
\* which a write fails (an ACK, a PONG, a PING or a state line that was due
\* is not on the wire) makes run return Io; and a link whose run has returned
\* takes no further step.
C20_ReadOutcomes ==
    [][\A p \in Panels :
         /\ (ReadStep(p) /\ last_line'[p] = "<idle>")
              => /\ LinkStateUnchanged(p)
                 /\ wire'[p] = wire[p]
                 /\ pc'[p] = "keepalive" /\ result'[p] = "running"
         /\ (ReadStep(p) /\ last_line'[p] = "<ioerr>")
              => /\ LinkStateUnchanged(p)
                 /\ wire'[p] = wire[p]
                 /\ pc'[p] = "done" /\ result'[p] = "Io"
         /\ (ReadStep(p) /\ last_line'[p] \in {"SYN|ACK", "PING"} /\ Written(p) = <<>>)
              => /\ LinkStateUnchanged(p)
                 /\ pc'[p] = "done" /\ result'[p] = "Io"
         /\ (RecvStep(p) /\ Dequeues(p) /\ aircraft_sim_state[p] # <<Head(sim_rx[p])>>
               /\ Len(Written(p)) < 4)
              => (pc'[p] = "done" /\ result'[p] = "Io")
         /\ (KeepaliveStep(p) /\ now > et[p] + 500 /\ Written(p) = <<>>)
              => (pc'[p] = "done" /\ result'[p] = "Io")
         /\ pc[p] = "done"
              => /\ connected'[p] = connected[p]
                 /\ aircraft_sim_state'[p] = aircraft_sim_state[p]
                 /\ et'[p] = et[p]
                 /\ dequeued'[p] = dequeued[p]
                 /\ ~Pushes(p)
                 /\ wire'[p] = wire[p]
                 /\ pc'[p] = "done" /\ result'[p] = result[p]
                 /\ lines_read'[p] = lines_read[p]]_vars

\* the read of a connected link failed: run returned Io with a state still
\* waiting in its channel, never to be dequeued
C20_Witness ==
    \E p \in Panels :
      /\ result[p] = "Io"
      /\ last_line[p] = "<ioerr>"
      /\ connected[p]
      /\ wire[p] = <<"SYN", "ACK">>
      /\ sim_rx[p] # <<>>
      /\ pc[p] = "done"

----------------------------------------------------------------------------
(* C21 *)

\* C21: a command leaves the command channel only in the drain step of a
\* loop iteration of a connected link, one command (the oldest) per step,
\* and the step after a drain is the notification handling of the same
\* iteration; a link that is not connected takes nothing from the channel;
\* and a notification is handled only in the dispatch step, one per step.
C21_OnePerIteration ==
    [][/\ Len(hw_rx') < Len(hw_rx)
            => /\ sim_pc = "recv" /\ sim_connected
               /\ hw_rx' = Tail(hw_rx)
               /\ sim_pc' \in {"dispatch", "backoff"}
               /\ Len(transmitted') <= Len(transmitted) + 1
       /\ (sim_pc = "recv" /\ sim_pc' # "recv" /\ ~sim_connected)
            => (hw_rx' = hw_rx /\ transmitted' = transmitted /\ sim_pc' = "dispatch")
       /\ transmitted' # transmitted => Len(hw_rx') < Len(hw_rx)
       /\ notifs' # notifs
            => /\ notifs' = notifs + 1
               /\ sim_pc = "dispatch" /\ sim_pc' # "dispatch"
               /\ hw_rx' = hw_rx
       /\ (sim_pc = "dispatch" /\ sim_pc' # "dispatch")
            => sim_pc' \in {"recv", "backoff", "panicked"}]_vars

\* two commands were pushed; the connected link took and transmitted one,
\* handled a notification, and the second command waits for the next drain
C21_Witness ==
    /\ sim_connected
    /\ Len(pushed) = 2
    /\ Len(hw_rx) = 1
    /\ Len(transmitted) = 1
    /\ notifs = 2
    /\ sim_pc = "recv"

----------------------------------------------------------------------------
(* C22 *)

\* C22 as stated: the step that handles an ObjectData notification appends
\* exactly one copy of the decoded state to the state channel of every
\* running panel of the fan-out list, also when the state equals the one
\* broadcast before.
C22_Claim ==
    [][Handles("Object")
         => \A p \in Members(sim_txs) :
              PanelAlive(p)
                => sim_rx'[p] = Append(sim_rx[p], objects'[Len(objects')])]_vars

----------------------------------------------------------------------------
(* C23 *)

\* lines of a device that shakes hands or resets
MixedLines == {"SYN|ACK", "RST"}

\* an EventSim panel first and an airspeed panel second in the fan-out list
InitMixed == InitConfig(<<1, 2>>, {2})

NextMixed ==
    PanelNext(MixedLines) \/ AirspeedNext \/ SimNext({"None", "Open", "Object"}, OneSample)

SpecMixed == InitMixed /\ [][NextMixed]_vars

\* C23 as stated: while the thread of any panel is running the sim thread
\* has not ended, so the state channel of a running panel is never
\* disconnected and no panel reaches the unreachable!() of its Disconnected
\* arm.
C23_Claim ==
    \A p \in Panels :
      /\ PanelAlive(p) => ~SimGone
      /\ result[p] # "panic: unreachable"

----------------------------------------------------------------------------
(* C24 *)

\* the class of a gear position (in hundredths) and the digit of its LED
\* line, from the wire protocol (spec section 6)
GearClass(v) == IF v = 0 THEN "Up" ELSE IF v = 100 THEN "Down" ELSE "Unknown"
GearDigit(v) == IF v = 0 THEN "0" ELSE IF v = 100 THEN "1" ELSE "2"

\* positions from below 0.0 to above 1.0
GearPositions == (0 - 1)..101

\* the classification and the digits as a table
GearFacts ==
    /\ \A v \in GearPositions : GearFrom(v) = GearClass(v)
    /\ as_int("Up") = 0 /\ as_int("Down") = 1 /\ as_int("Unknown") = 2

\* every line a gear LED line can be
GearLines ==
    {led \o d : led \in {"FRONT_GEAR_LED:", "LEFT_GEAR_LED:", "RIGHT_GEAR_LED:"},
                d \in {"0", "1", "2"}}

\* C24: a gear position is Up when exactly 0, Down when exactly 1 (100
\* hundredths) and Unknown otherwise; the burst written for a telemetry
\* sample carries on its three gear LED lines 0 for Up, 1 for Down and 2 for
\* Unknown; and every line ever written is a protocol line, a gear LED line
\* having no other digit.
C24_GearEncoding ==
    [][\A p \in Panels :
         /\ GearFacts
         /\ (RecvStep(p) /\ Dequeues(p) /\ Len(Written(p)) = 4)
              => \E d \in HostData :
                   /\ Head(sim_rx[p]).parking_brake_indicator = d.parking_brake_indicator
                   /\ Head(sim_rx[p]).airspeed = d.airspeed
                   /\ Written(p)[2] = "FRONT_GEAR_LED:" \o GearDigit(d.gear_center_position)
                   /\ Written(p)[3] = "LEFT_GEAR_LED:" \o GearDigit(d.gear_left_position)
                   /\ Written(p)[4] = "RIGHT_GEAR_LED:" \o GearDigit(d.gear_right_position)
         /\ \A i \in DOMAIN wire'[p] :
              wire'[p][i] \in GearLines \cup
                {"SYN", "ACK", "PING", "PONG", "PARKING_BRAKE:0", "PARKING_BRAKE:1"}]_vars

\* a sample with the gear down in front and right and half way on the left
\* was written as 1, 2, 1
C24_Witness ==
    \E p \in Panels :
      wire[p] = <<"SYN", "ACK", "PARKING_BRAKE:0", "FRONT_GEAR_LED:1",
                  "LEFT_GEAR_LED:2", "RIGHT_GEAR_LED:1">>

----------------------------------------------------------------------------
(* C25 *)

\* seq is a prefix of other
IsPrefix(seq, other) ==
    Len(seq) <= Len(other) /\ seq = SubSeq(other, 1, Len(seq))

\* C25: while the sim link is not connected (before the first Open, in the
\* backoff, on a new client that has not registered) no command leaves the
\* command channel and none is transmitted: commands pushed meanwhile queue
\* up behind the ones waiting; and a command leaves the channel only as its
\* head, taken by a connected link for transmission.
C25_CommandsSurviveOutage ==
    [][/\ ~sim_connected
            => (IsPrefix(hw_rx, hw_rx') /\ transmitted' = transmitted)
       /\ ~IsPrefix(hw_rx, hw_rx')
            => /\ sim_connected /\ regs >= 1 + 14
               /\ hw_rx' = Tail(hw_rx)
               /\ transmitted' \in {transmitted,
                                    Append(transmitted, Transmission(Head(hw_rx).event))}]_vars

\* a command pushed before the link was ever connected waited through a
\* failed connection attempt and the backoff and went to the host on the
\* second client
C25_Witness ==
    /\ Len(pushed) = 1
    /\ ~pushed[1].up
    /\ Len(transmitted) = 1
    /\ transmitted[1].conn = 2
    /\ transmitted[1].event = pushed[1].event
    /\ sim_ret = "NewErr"
    /\ notifs = 1


----------------------------------------------------------------------------
(* C26 *)

\* a device that only shakes hands
PingLines == {"SYN|ACK"}

\* the link over two keepalive intervals, with a host that connects once and
\* sends telemetry, so that PINGs are written before and after the handshake
\* and between state bursts
NextPing ==
    \/ PanelNext(PingLines)
    \/ (SimNext({"None", "Open", "Object"}, OneSample) /\ conn' <= 1)
    \/ TickTo(MaxPingNow)

SpecPing == Init /\ [][NextPing]_vars

\* C26: the clock readings at reader setup and at the PINGs written are more
\* than 500 ms apart, each from the one before (so two consecutive PINGs are,
\* and the first PING is from the setup of the reader), Connected or not;
\* every PING on the wire is one of these; and the interval timer holds the
\* last of these readings, whatever other line was written since
C26_PingSpacing ==
    \A p \in Panels :
      pc[p] \in {"recv", "read", "keepalive", "done"} /\ timer_log[p] # <<>>
        => /\ \A i \in 1..(Len(timer_log[p]) - 1) :
                timer_log[p][i + 1] > timer_log[p][i] + 500
           /\ Count(wire[p], "PING") = Len(timer_log[p]) - 1
           /\ et[p] = timer_log[p][Len(timer_log[p])]

\* the reader was set up at 0 ms; the first PING went out at 750 ms, before
\* the handshake, the second at 1500 ms, after the handshake and a state burst
C26_Witness ==
    \E p \in Panels :
      /\ timer_log[p] = <<0, 750, 1500>>
      /\ Len(dequeued[p]) = 1
      /\ wire[p] = <<"SYN", "PING", "ACK">> \o Burst(dequeued[p][1]) \o <<"PING">>
      /\ last_write[p] = 1500


----------------------------------------------------------------------------
(* C27 *)

\* two telemetry samples that differ in airspeed only
SpeedSamples == {MkData(0, 0, 0, 0, TRUE), MkData(0, 0, 0, 120, TRUE)}

\* the link fed by a host whose airspeed changes while brake and gear rest
NextSpeed ==
    \/ PanelNext(PingLines)
    \/ (SimNext({"None", "Object"}, SpeedSamples) /\ conn' <= 1)

SpecSpeed == Init /\ [][NextSpeed]_vars

\* the state lines on the wire of panel p, in order
StateLines(p) == SelectSeq(wire[p], LAMBDA l : l \notin {"SYN", "ACK", "PING", "PONG"})

\* C27: two consecutive four-line state bursts on the wire never carry the
\* same four lines
C27_Claim ==
    \A p \in Panels :
      \A i \in 1..Len(StateLines(p)) :
        (i % 4 = 1 /\ i + 7 <= Len(StateLines(p)))
          => SubSeq(StateLines(p), i, i + 3) # SubSeq(StateLines(p), i + 4, i + 7)


----------------------------------------------------------------------------
(* C28 *)

\* C28: while a link has written no ACK it has dequeued no state and written
\* no state line, and its state channel only grows; a state leaves the
\* channel only in the state push of a Connected link that has written ACK,
\* and it is the oldest one, one per iteration; so the states dequeued
\* followed by the states waiting are the states broadcast, in broadcast order
C28_PushGatedOnHandshake ==
    [][\A p \in Panels :
         /\ Count(wire[p], "ACK") = 0
              => /\ dequeued[p] = <<>> /\ dequeued'[p] = <<>>
                 /\ StateLines(p) = <<>>
                 /\ IsPrefix(sim_rx[p], sim_rx'[p])
         /\ ~IsPrefix(sim_rx[p], sim_rx'[p])
              => /\ RecvStep(p) /\ connected[p] /\ Count(wire[p], "ACK") > 0
                 /\ sim_rx'[p] = Tail(sim_rx[p])
                 /\ dequeued'[p] = Append(dequeued[p], Head(sim_rx[p]))
         /\ Dequeues(p) => ~IsPrefix(sim_rx[p], sim_rx'[p])
         /\ IsPrefix(dequeued[p] \o sim_rx[p], objects)]_vars

\* two different states were broadcast; the link shook hands and has pushed
\* the older one, the newer one still waits for the next iteration
C28_Witness ==
    \E p \in Panels :
      /\ connected[p] /\ pc[p] = "read"
      /\ Len(objects) = 2 /\ objects[1] # objects[2]
      /\ dequeued[p] = <<objects[1]>>
      /\ sim_rx[p] = <<objects[2]>>
      /\ wire[p] = <<"SYN", "ACK">> \o Burst(objects[1])


----------------------------------------------------------------------------
(* C29 *)

\* C29: a Connected link that reads SYN|ACK writes ACK and nothing else and
\* stays Connected (or the write fails and run ends with the I/O error,
\* nothing written); the read leaves the remembered state, the state channel
\* and the states dequeued as they were; and a Connected link that dequeues a
\* state equal to the remembered one writes nothing, a repeated handshake
\* before it or not
C29_RepeatedSynAck ==
    [][\A p \in Panels :
         /\ (ReadStep(p) /\ connected[p] /\ last_line'[p] = "SYN|ACK")
              => /\ aircraft_sim_state'[p] = aircraft_sim_state[p]
                 /\ sim_rx'[p] = sim_rx[p]
                 /\ dequeued'[p] = dequeued[p]
                 /\ connected'[p]
                 /\ pc'[p] # "done" => Written(p) = <<"ACK">>
                 /\ pc'[p] = "done" => (Written(p) = <<>> /\ result'[p] = "Io")
         /\ (RecvStep(p) /\ Dequeues(p) /\ Count(wire[p], "ACK") > 1
               /\ aircraft_sim_state[p] = <<dequeued'[p][Len(dequeued'[p])]>>)
              => (Written(p) = <<>> /\ aircraft_sim_state'[p] = aircraft_sim_state[p])]_vars

\* the link pushed a state, then read SYN|ACK again and wrote a second ACK,
\* and in the next iteration dequeued an equal state and wrote nothing
C29_Witness ==
    \E p \in Panels :
      /\ connected[p] /\ pc[p] = "read"
      /\ last_line[p] = "SYN|ACK" /\ lines_read[p] = 2
      /\ Len(dequeued[p]) = 2 /\ dequeued[p][1] = dequeued[p][2]
      /\ aircraft_sim_state[p] = <<dequeued[p][2]>>
      /\ wire[p] = <<"SYN", "ACK">> \o Burst(dequeued[p][1]) \o <<"ACK">>


----------------------------------------------------------------------------
(* C30 *)

\* the airspeed line of a state, from the wire protocol (spec section 6), for
\* the airspeeds of the telemetry samples
KnotsLine(state) ==
    IF state.airspeed = 0
    THEN "Type<I-A>::Target<Airspeed-Indicator>::Content<0>::Origin<Interface>;"
    ELSE IF state.airspeed = 120
    THEN "Type<I-A>::Target<Airspeed-Indicator>::Content<120>::Origin<Interface>;"
    ELSE "<other airspeed>"

\* C30: an airspeed link has dequeued nothing and written nothing until the
\* banner check succeeded; from then on its wire holds the airspeed lines of
\* the states it dequeued, one each and in dequeue order, equal neighbours
\* included (the line of the last state is missing exactly when its write
\* failed and ended run with the I/O error); no SYN, ACK, PING or PONG is on
\* its wire, it is never Connected, and no command is pushed
C30_AirspeedForwarding ==
    \A p \in Panels :
      /\ pc[p] \in {"anew", "areset", "banner"} => (dequeued[p] = <<>> /\ wire[p] = <<>>)
      /\ (dequeued[p] # <<>> \/ wire[p] # <<>>)
           => buf[p] = "Name<Airspeed-Indicator>;"
      /\ Len(wire[p]) <= Len(dequeued[p])
      /\ wire[p] = [i \in 1..Len(wire[p]) |-> KnotsLine(dequeued[p][i])]
      /\ Len(wire[p]) < Len(dequeued[p])
           => /\ Len(wire[p]) = Len(dequeued[p]) - 1
              /\ pc[p] = "done" /\ result[p] = "Io"
      /\ \A i \in 1..Len(wire[p]) : wire[p][i] \notin {"SYN", "ACK", "PING", "PONG"}
      /\ ~connected[p]
      /\ pushed = <<>> /\ hw_rx = <<>>

\* the link forwarded two equal states: the same line twice
C30_Witness ==
    \E p \in Panels :
      /\ pc[p] = "loop"
      /\ Len(dequeued[p]) = 2 /\ dequeued[p][1] = dequeued[p][2]
      /\ dequeued[p][1].airspeed = 120
      /\ wire[p] = <<"Type<I-A>::Target<Airspeed-Indicator>::Content<120>::Origin<Interface>;",
                     "Type<I-A>::Target<Airspeed-Indicator>::Content<120>::Origin<Interface>;">>

============================================================================
